---- MODULE Spec2Model ----
(***************************************************************************)
(* validate-article-json (src/main.go).                                    *)
(*                                                                         *)
(* The model follows one run of `do`: flag validation, the single-document *)
(* mode, and in directory mode the sampling of the directory listing, the  *)
(* main pass of process_files_with_feeder (feeder goroutine, buffered      *)
(* article_chan, dispatcher loop, conc result pool), the summary, and the  *)
(* sequential revalidation pass over the first failures.                   *)
(*                                                                         *)
(* Goroutines are interleaved one step at a time.  The conc pool's workers *)
(* are anonymous goroutines: the model keeps the set of tasks in progress  *)
(* and the number of workers blocked on the pool's task channel.           *)
(* File names are natural numbers (their order is the order of the names), *)
(* a path is identified with its file name, and timing (Elapsed,           *)
(* start_time, end_time) is left out.  format_ms is specified on its own   *)
(* (FormatSpec).                                                           *)
(***************************************************************************)
EXTENDS Integers, Sequences, FiniteSets, TLC

\* ------------------------------------------------------------ bounds
MaxFiles == 3
LongFiles == 5
MaxWorkers == 2
MaxBuffer == 2
NumCPU == 2
CapMargin == 1
MaxMs == 121000
MaxResults == 3

\* main.go:408  num_to_revalidate := 25
num_to_revalidate == 25

\* ------------------------------------------------------------ inputs
\* gjson's Exists() is false for this value
NoField == "<absent>"

\* What a directory entry can be: a sub-directory, a file with another extension,
\* an article-json file with or without the fields read_article_data looks for, a
\* file os.ReadFile fails on, a file whose article section json.Unmarshal fails on
\* (err names the call that returns an error).
Valid_POA == [isdir |-> FALSE, ext |-> ".json", status |-> "poa", article |-> "valid",
    err |-> "nil"]
Invalid_VOR == [isdir |-> FALSE, ext |-> ".json", status |-> "vor", article |-> "invalid",
    err |-> "nil"]
NoStatus == [isdir |-> FALSE, ext |-> ".json", status |-> NoField, article |-> "valid",
    err |-> "nil"]
NoArticle == [isdir |-> FALSE, ext |-> ".json", status |-> NoField, article |-> NoField,
    err |-> "nil"]
UnknownTag == [isdir |-> FALSE, ext |-> ".json", status |-> "xyz", article |-> "valid",
    err |-> "nil"]
Unreadable == [isdir |-> FALSE, ext |-> ".json", status |-> NoField, article |-> NoField,
    err |-> "ReadFile"]
Undecodable == [isdir |-> FALSE, ext |-> ".json", status |-> "poa", article |-> "garbled",
    err |-> "Unmarshal"]
SubDir == [isdir |-> TRUE, ext |-> "", status |-> NoField, article |-> NoField,
    err |-> "nil"]
NonJson == [isdir |-> FALSE, ext |-> ".txt", status |-> "poa", article |-> "valid",
    err |-> "nil"]

\* documents that load and have a schema; documents of every kind; directory entries
GoodKinds == {Valid_POA, Invalid_VOR}
DocKinds == {Valid_POA, Invalid_VOR, NoStatus, NoArticle, UnknownTag, Unreadable, Undecodable}
EntryKinds == {Valid_POA, Invalid_VOR, SubDir, NonJson}

\* the keys of schema_map built by configure_validator
SchemaKeys == {"POA", "VOR"}

\* What --schema-root can name: no path at all, a path that does not exist, or a
\* directory in which each of the two schema files (article-poa.v*.json and
\* article-vor.v*.json under dist/model) is absent, unreadable, not compilable or fine.
SchemaKinds == {"none", "unreadable", "uncompilable", "ok"}

NoRoot == [path |-> "", exists |-> FALSE, poa |-> "none", vor |-> "none"]

MissingRoot == [path |-> "given", exists |-> FALSE, poa |-> "none", vor |-> "none"]

SchemaRoots ==
    {NoRoot, MissingRoot} \cup
    {[path |-> "given", exists |-> TRUE, poa |-> p, vor |-> v] : p, v \in SchemaKinds}

GoodRoot == [path |-> "given", exists |-> TRUE, poa |-> "ok", vor |-> "ok"]

\* What --article-json can name: no path at all, a path that does not exist, or an
\* existing file or directory.
InputPaths == {"", "missing", "present"}

VARIABLES
    dir,            \* the input directory: file name -> entry (never changes)
    schema_root,    \* what --schema-root names (never changes)
    input_path,     \* what --article-json names (never changes)
    ms,             \* format_ms: the argument
    elapsed_str,    \* format_ms: the string returned, once it was called
    input_is_dir,   \* path_is_dir(input_path); when FALSE the input is the file dir[1]
    long_error,     \* single-document mode: the output of long_validation_error
    path_list,      \* do: the directory listing (file names)
    sample_size,    \* do: sample_size
    num_workers,    \* do: num_workers
    buffer_size,    \* do: buffer_size
    pc,             \* position of the main goroutine
    exit_code,      \* -1 while running; 0, 1 (os.Exit(1)) or 2 (unrecovered panic)
    pass,           \* number of calls of process_files_with_feeder so far
    file_list,      \* the file_list handed to process_files_with_feeder
    capture_error,
    print_status,
    chan_cap,       \* cap(article_chan)
    article_chan,   \* buffered Articles
    chan_closed,
    pc_feeder,      \* position of the feeder goroutine
    feed_i,         \* index in file_list of the feeder's loop
    feed_held,      \* the Article the feeder has loaded and not yet sent
    reads,          \* file name -> calls of read_article_data in the current pass
    start_time,     \* once taken: the number of files the feeder had read by then
    end_time,       \* once taken: the number of Results the pool held by then
    disp_held,      \* the Article the range loop received and has not yet handed to the pool
    max_goroutines, \* the pool's limiter capacity, 0 for none
    n_idle,         \* workers blocked receiving from the pool's task channel
    running,        \* Articles whose task a worker is executing
    tasks_closed,   \* pool.Wait closed the task channel
    panic_caught,   \* the pool's panic catcher holds a worker's panic
    result_list,    \* the pool's aggregated results / the returned result_list
    status_lines,   \* file name -> number of status lines printed for it by workers
    failures,       \* do: failures
    cpu_time_ms,    \* do: cpu_time_ms, once the loop over result_list has run
    summary,        \* the summary line, once printed
    report          \* the detailed failure report

vars == <<dir, schema_root, input_path, ms, elapsed_str, input_is_dir, long_error, path_list, sample_size, num_workers, buffer_size, pc, exit_code, pass,
          file_list, capture_error, print_status, chan_cap, article_chan, chan_closed,
          pc_feeder, feed_i, feed_held, reads, start_time, end_time, disp_held, max_goroutines, n_idle, running,
          tasks_closed, panic_caught, result_list, status_lines, failures, cpu_time_ms, summary, report>>

doVars == <<path_list, sample_size, num_workers, buffer_size, failures, cpu_time_ms, summary, report>>
jobVars == <<file_list, capture_error, print_status, pass>>
chanVars == <<chan_cap, article_chan, chan_closed>>
feederVars == <<pc_feeder, feed_i, feed_held, reads>>
timeVars == <<start_time, end_time>>
poolVars == <<max_goroutines, n_idle, running, tasks_closed, panic_caught, result_list, status_lines>>

\* ------------------------------------------------------------ helpers
Min(a, b) == IF a < b THEN a ELSE b

Perms(n) == {s \in [1..n -> 1..n] : \A i, j \in 1..n : s[i] = s[j] => i = j}

Identity(n) == [i \in 1..n |-> i]

\* strings.ToUpper on the status values of the model
ToUpper(s) == CASE s = "poa" -> "POA" [] s = "vor" -> "VOR" [] s = "xyz" -> "XYZ" [] OTHER -> s

Alive == exit_code = -1

\* ------------------------------------------------------------ initial states
\* The state after flag.Parse (main.go:298-304).
\* Families of inputs: documents that validate or not under every worker count
\* and buffer size; a longer directory whose documents alternate between valid and
\* invalid; documents of every kind, malformed ones and ones without a schema
\* included, under NumCPU workers; listings in any order with ineligible entries
\* under every sample size; flag values that --sample-size, --num-workers or
\* --buffer-size reject.
InitState(sr, ip, n, d, isdir, pl, ss, nw, bs, m) ==
    /\ dir = d
    /\ schema_root = sr
    /\ input_path = ip
    /\ ms = m
    /\ elapsed_str = <<>>
    /\ input_is_dir = isdir
    /\ long_error = <<>>
    /\ path_list = pl
    /\ sample_size = ss
    /\ num_workers = nw
    /\ buffer_size = bs
    /\ pc = "config"
    /\ exit_code = -1
    /\ pass = 0
    /\ file_list = <<>>
    /\ capture_error = FALSE
    /\ print_status = FALSE
    /\ chan_cap = 0
    /\ article_chan = <<>>
    /\ chan_closed = FALSE
    /\ pc_feeder = "none"
    /\ feed_i = 1
    /\ feed_held = <<>>
    /\ reads = [f \in 1..n |-> 0]
    /\ start_time = <<>>
    /\ end_time = <<>>
    /\ disp_held = <<>>
    /\ max_goroutines = 0
    /\ n_idle = 0
    /\ running = {}
    /\ tasks_closed = FALSE
    /\ panic_caught = FALSE
    /\ result_list = <<>>
    /\ status_lines = [f \in 1..n |-> 0]
    /\ failures = <<>>
    /\ cpu_time_ms = <<>>
    /\ summary = <<>>
    /\ report = <<>>

\* a run of do
InitRun(n, d, isdir, pl, ss, nw, bs) ==
    InitState(GoodRoot, "present", n, d, isdir, pl, ss, nw, bs, 0)

\* directory mode
InitJob(n, d, pl, ss, nw, bs) == InitRun(n, d, TRUE, pl, ss, nw, bs)

InitPipeline ==
    \E n \in 0..MaxFiles : \E d \in [1..n -> GoodKinds] :
    \E nw \in -1..MaxWorkers : \E bs \in 1..MaxBuffer :
        InitJob(n, d, Identity(n), -1, nw, bs)

LongDir(n) == [i \in 1..n |-> IF i % 2 = 0 THEN Invalid_VOR ELSE Valid_POA]

InitLong ==
    \E nw \in -1..MaxWorkers : \E bs \in 1..MaxBuffer :
        InitJob(LongFiles, LongDir(LongFiles), Identity(LongFiles), -1, nw, bs)

InitFatal ==
    \E n \in 1..MaxFiles : \E d \in [1..n -> DocKinds] :
        InitJob(n, d, Identity(n), -1, 0, 1)

InitSampling ==
    \E n \in 0..MaxFiles : \E d \in [1..n -> EntryKinds] : \E pl \in Perms(n) :
    \E ss \in {-1} \cup 1..(MaxFiles + 1) :
        InitJob(n, d, pl, ss, 1, 1)

InitBadFlags ==
    \E ss \in {-2, -1, 0, 1} : \E nw \in {-2, 1} : \E bs \in {0, 1} :
        /\ ss \in {-2, 0} \/ nw = -2 \/ bs = 0
        /\ InitJob(1, [i \in 1..1 |-> Valid_POA], Identity(1), ss, nw, bs)

\* A schema root or an input path that do rejects or cannot use, with flag values
\* it accepts or not; the input is a directory of one valid file.
InitBadSetup ==
    \E sr \in SchemaRoots : \E ip \in InputPaths : \E ss \in {-1, 0} :
        /\ sr # GoodRoot \/ ip # "present"
        /\ InitState(sr, ip, 1, [i \in 1..1 |-> Valid_POA], TRUE, Identity(1), ss, 1, 1, 0)

\* The input path is a single file of any kind; it is file 1 of a dir of one entry.
InitSingle ==
    \E d \in DocKinds :
        InitRun(1, [i \in 1..1 |-> d], FALSE, <<>>, -1, 0, 1)

\* A sixth family: directories with about num_to_revalidate failing documents (one
\* fewer to one more) and one valid document among them, under one worker.
CapDir(n) == [i \in 1..(n + 1) |-> IF i = 2 THEN Valid_POA ELSE Invalid_VOR]

InitCap ==
    \E n \in (num_to_revalidate - CapMargin)..(num_to_revalidate + CapMargin) :
        InitJob(n + 1, CapDir(n), Identity(n + 1), -1, 1, MaxBuffer)

Init == InitPipeline \/ InitLong \/ InitFatal \/ InitSampling \/ InitBadFlags \/ InitCap \/ InitSingle
        \/ InitBadSetup

\* ------------------------------------------------------------ do: flags
\* a faulty variant: the panic is recovered, the goroutine ends and the process goes on
Crash_Recovered ==
    /\ pc' = pc
    /\ exit_code' = exit_code

\* an unrecovered panic ends the process (exit status 2)
Crash ==
    /\ pc' = "crashed"
    /\ exit_code' = 2

\* main.go:317, 320, 326: the die() conditions on the three numeric flags
BadFlags(ss, nw, bs) == ss < -1 \/ ss = 0 \/ nw < -1 \/ bs < 1

\* main.go:321-323
ResolveWorkers(nw) == IF nw = 0 THEN NumCPU ELSE nw

\* main.go:187-190
path_exists(exists) == exists

\* main.go:66-75  Glob gives no error when nothing matches the pattern, and
\* path_list[len(path_list)-1] of the empty list is an index out of range: a panic
find_first_schema(kind) == IF kind = "none" THEN "panic" ELSE "path"

\* main.go:77-135  the schema map, an error when a schema file cannot be read, added
\* or compiled, or the panic of find_first_schema
configure_validator(sr) ==
    IF find_first_schema(sr.poa) = "panic" THEN "panic"
    ELSE IF find_first_schema(sr.vor) = "panic" THEN "panic"
    ELSE IF sr.poa # "ok" \/ sr.vor # "ok" THEN "err"
    ELSE "schema_map"

\* main.go:306-326  how the checks at the start of do end: "die" for os.Exit(1) in
\* die(), "panic", or "ok"
ConfigOutcome(sr, ip, ss, nw, bs) ==
    IF sr.path = "" \/ ~path_exists(sr.exists) THEN "die"
    ELSE IF configure_validator(sr) = "panic" THEN "panic"
    ELSE IF configure_validator(sr) = "err" THEN "die"
    ELSE IF ip = "" \/ ~path_exists(ip = "present") THEN "die"
    ELSE IF BadFlags(ss, nw, bs) THEN "die"
    ELSE "ok"

\* main.go:306-326
DoConfig ==
    /\ pc = "config"
    /\ LET outcome == ConfigOutcome(schema_root, input_path, sample_size, num_workers,
                                    buffer_size)
       IN IF outcome = "die"
            THEN /\ pc' = "exit"
                 /\ exit_code' = 1
                 /\ UNCHANGED num_workers
            ELSE IF outcome = "panic"
            THEN /\ Crash
                 /\ UNCHANGED num_workers
            ELSE /\ pc' = "sample"
                 /\ num_workers' = ResolveWorkers(num_workers)
                 /\ UNCHANGED exit_code
    /\ UNCHANGED <<dir, timeVars, schema_root, input_path, ms, elapsed_str, input_is_dir, long_error,
                   path_list, sample_size, buffer_size, failures, cpu_time_ms, summary, report>>
    /\ UNCHANGED <<jobVars, chanVars, feederVars, disp_held, poolVars>>

\* ------------------------------------------------------------ do: sampling
\* main.go:342-345
Clamp(ss, n) == IF ss = -1 \/ ss > n THEN n ELSE ss

\* main.go:350-352  sort.Slice by Name, ascending: the i-th entry of the result is
\* the entry of the listing that has i - 1 entries with a smaller name
Names(listing) == {listing[i] : i \in DOMAIN listing}

SortByName(listing) ==
    [i \in 1..Len(listing) |->
        CHOOSE x \in Names(listing) :
            Cardinality({y \in Names(listing) : y < x}) = i - 1]

\* main.go:358-365  neither a directory nor a file without the .json extension
Eligible(name) == ~dir[name].isdir /\ dir[name].ext = ".json"

\* a faulty variant: the listing is filtered first and the first k eligible entries kept
FilterFirst_FilterThenCut(sorted, k) ==
    SubSeq(SelectSeq(sorted, Eligible), 1, Min(k, Len(SelectSeq(sorted, Eligible))))

\* main.go:354-368  the loop over the first k entries of the sorted listing
FilterFirst(sorted, k) == SelectSeq(SubSeq(sorted, 1, k), Eligible)

\* a faulty variant: the sample is left in ascending order
Reverse_Skipped(s) == s

\* main.go:371  slices.Reverse
Reverse(s) == [i \in 1..Len(s) |-> s[Len(s) + 1 - i]]

\* a faulty variant: the clamped request is reported, filtered-out entries included
ReportedSampleSize_Unfiltered(clamped, files) == clamped

\* main.go:373-374  the sample size reported is the number of files kept
ReportedSampleSize(clamped, files) == Len(files)

\* main.go:342-371  the files handed to the main pass
Sample(listing, requested) ==
    Reverse(FilterFirst(SortByName(listing), Clamp(requested, Len(listing))))

\* main.go:339-377
DoSample ==
    /\ pc = "sample"
    /\ input_is_dir
    /\ path_list' = SortByName(path_list)
    /\ file_list' = Sample(path_list, sample_size)
    /\ sample_size' = ReportedSampleSize(Clamp(sample_size, Len(path_list)),
                                         Sample(path_list, sample_size))
    /\ capture_error' = FALSE
    /\ print_status' = TRUE
    /\ pc' = "pass_start"
    /\ UNCHANGED <<dir, timeVars, schema_root, input_path, ms, elapsed_str, input_is_dir, long_error, num_workers, buffer_size, failures, cpu_time_ms, summary, report, exit_code, pass>>
    /\ UNCHANGED <<chanVars, feederVars, disp_held, poolVars>>

\* ------------------------------------------------------------ documents
\* a faulty variant: the check of 'article.status' is left out
Malformed_ArticleOnly(name) == dir[name].article = NoField

\* main.go:143-154  the two Exists() checks of read_article_data
Malformed(name) == dir[name].status = NoField \/ dir[name].article = NoField

\* a faulty variant: the error is dropped
panic_on_err_Ignored(err) == FALSE

\* main.go:29-33  panic_on_err panics
panic_on_err(err) == err # "nil"

\* main.go:140  the error of os.ReadFile
ReadFileErr(name) == IF dir[name].err = "ReadFile" THEN "ReadError" ELSE "nil"

\* main.go:169  the error of json.Unmarshal on the article section
UnmarshalErr(name) == IF dir[name].err = "Unmarshal" THEN "SyntaxError" ELSE "nil"

\* main.go:139-170  read_article_data panics: on the read, on a missing field, or on
\* the decoding
LoadPanics(name) ==
    \/ panic_on_err(ReadFileErr(name))
    \/ Malformed(name)
    \/ panic_on_err(UnmarshalErr(name))

\* main.go:139-177  the Article read_article_data returns when it does not panic
read_article_data(name) ==
    [Type |-> ToUpper(dir[name].status), FileName |-> name, Data |-> dir[name].article]

\* main.go:179-185  the error of schema.Validate: nil or a validation error
validate(data) == IF data = "valid" THEN "nil" ELSE "ValidationError"

\* main.go:180-183  the time schema.Validate took, in milliseconds as validate_article
\* keeps it; it is what the clock measured, an input of the run, here 1 ms for data
\* that validates and 2 ms for data that does not
elapsed(data) == IF data = "valid" THEN 1 ELSE 2

\* main.go:200-203
SchemaPresent(article) == article.Type \in SchemaKeys

\* a faulty variant: Success set when validation returned an error
validate_article_Inverted(article, capture) ==
    LET err == validate(article.Data)
    IN [Type |-> article.Type,
        FileName |-> article.FileName,
        Elapsed |-> elapsed(article.Data),
        Success |-> (err # "nil"),
        Error |-> IF capture /\ err # "nil" THEN err ELSE "nil"]

\* a faulty variant: the verdict depends on capture_error
validate_article_VerdictByCapture(article, capture) ==
    LET err == validate(article.Data)
    IN [Type |-> article.Type,
        FileName |-> article.FileName,
        Elapsed |-> elapsed(article.Data),
        Success |-> (err = "nil" \/ capture),
        Error |-> IF capture /\ err # "nil" THEN err ELSE "nil"]

\* a faulty variant: the error is attached whether or not capture_error is set
validate_article_AlwaysCaptured(article, capture) ==
    LET err == validate(article.Data)
    IN [Type |-> article.Type,
        FileName |-> article.FileName,
        Elapsed |-> elapsed(article.Data),
        Success |-> (err = "nil"),
        Error |-> err]

\* main.go:205-219  the Result of validate_article when the schema is present
validate_article(article, capture) ==
    LET err == validate(article.Data)
    IN [Type |-> article.Type,
        FileName |-> article.FileName,
        Elapsed |-> elapsed(article.Data),
        Success |-> (err = "nil"),
        Error |-> IF capture /\ err # "nil" THEN err ELSE "nil"]

\* a faulty variant: single-document mode does not ask for the error
capture_errors_Unset == FALSE

\* main.go:330  capture_errors := true
capture_errors == TRUE

\* main.go:328-336  single-document mode: the file is read and validated in the main
\* goroutine with capture_errors; an invalid document has its error printed and the
\* process exits with 1, otherwise do returns
DoSingle ==
    /\ pc = "sample"
    /\ ~input_is_dir
    /\ IF LoadPanics(1) \/ ~SchemaPresent(read_article_data(1))
         THEN /\ Crash
              /\ UNCHANGED long_error
         ELSE IF ~validate_article(read_article_data(1), capture_errors).Success
         THEN /\ long_error' = <<validate_article(read_article_data(1), capture_errors).Error>>
              /\ pc' = "exit"
              /\ exit_code' = 1
         ELSE /\ pc' = "exit"
              /\ exit_code' = 0
              /\ UNCHANGED long_error
    /\ UNCHANGED <<dir, timeVars, schema_root, input_path, ms, elapsed_str, input_is_dir, doVars, jobVars, chanVars, feederVars, disp_held, poolVars>>

\* ------------------------------------------------------------ process_files_with_feeder
\* a faulty variant: the channel is as large as the file list
ChanCap_JobSize(bs, job_size) == job_size

\* main.go:257-260
ChanCap(bs, job_size) == IF job_size < bs THEN job_size ELSE bs

\* a faulty variant: the pool is never given a limit
PoolLimit_Ignored(nw) == 0

\* main.go:275-278  WithMaxGoroutines only for num_workers >= 1
PoolLimit(nw) == IF nw >= 1 THEN nw ELSE 0

\* main.go:256-278  channel, feeder goroutine and pool are set up
PassStart ==
    /\ pc = "pass_start"
    /\ pass' = pass + 1
    /\ chan_cap' = ChanCap(buffer_size, Len(file_list))
    /\ article_chan' = <<>>
    /\ chan_closed' = FALSE
    /\ pc_feeder' = "load"
    /\ feed_i' = 1
    /\ feed_held' = <<>>
    /\ reads' = [f \in DOMAIN dir |-> 0]
    /\ disp_held' = <<>>
    /\ max_goroutines' = PoolLimit(num_workers)
    /\ n_idle' = 0
    /\ running' = {}
    /\ tasks_closed' = FALSE
    /\ panic_caught' = FALSE
    /\ result_list' = <<>>
    /\ start_time' = <<>>
    /\ end_time' = <<>>
    /\ pc' = "start"
    /\ UNCHANGED <<dir, schema_root, input_path, ms, elapsed_str, input_is_dir, long_error, doVars, exit_code, file_list, capture_error, print_status, status_lines>>

\* the files the feeder has called read_article_data for
ReadsBegun(r) == Cardinality({f \in DOMAIN r : r[f] > 0})

\* main.go:279  start_time := time.Now(), with the feeder goroutine already started
TakeStart ==
    /\ pc = "start"
    /\ start_time' = <<ReadsBegun(reads)>>
    /\ pc' = "range"
    /\ UNCHANGED <<dir, end_time, schema_root, input_path, ms, elapsed_str, input_is_dir, long_error, doVars, jobVars, chanVars, feederVars, disp_held, poolVars, exit_code>>

\* main.go:266-267  the feeder reads the next file; a malformed one panics
FeederLoad ==
    /\ Alive
    /\ pc_feeder = "load"
    /\ feed_i <= Len(file_list)
    /\ reads' = [reads EXCEPT ![file_list[feed_i]] = @ + 1]
    /\ IF LoadPanics(file_list[feed_i])
         THEN /\ Crash
              /\ pc_feeder' = "panicked"
              /\ UNCHANGED feed_held
         ELSE /\ feed_held' = <<read_article_data(file_list[feed_i])>>
              /\ pc_feeder' = "push"
              /\ UNCHANGED <<pc, exit_code>>
    /\ UNCHANGED <<dir, timeVars, schema_root, input_path, ms, elapsed_str, input_is_dir, long_error, doVars, jobVars, chanVars, feed_i, disp_held, poolVars>>

\* a faulty variant: a channel without capacity limit
CanSend_Unbounded(chan, cap) == TRUE

\* a send on article_chan can proceed
CanSend(chan, cap) == Len(chan) < cap

\* a faulty variant: the loop does not move to the next file after a send
FeederPush_Stay ==
    /\ Alive
    /\ pc_feeder = "push"
    /\ CanSend(article_chan, chan_cap)
    /\ article_chan' = Append(article_chan, feed_held[1])
    /\ feed_held' = <<>>
    /\ UNCHANGED reads
    /\ feed_i' = feed_i
    /\ pc_feeder' = "load"
    /\ UNCHANGED <<dir, timeVars, schema_root, input_path, ms, elapsed_str, input_is_dir, long_error, doVars, jobVars, chan_cap, chan_closed, disp_held, poolVars, pc, exit_code>>

\* main.go:267  article_chan <- article, blocking while the buffer is full
FeederPush ==
    /\ Alive
    /\ pc_feeder = "push"
    /\ CanSend(article_chan, chan_cap)
    /\ article_chan' = Append(article_chan, feed_held[1])
    /\ feed_held' = <<>>
    /\ UNCHANGED reads
    /\ feed_i' = feed_i + 1
    /\ pc_feeder' = "load"
    /\ UNCHANGED <<dir, timeVars, schema_root, input_path, ms, elapsed_str, input_is_dir, long_error, doVars, jobVars, chan_cap, chan_closed, disp_held, poolVars, pc, exit_code>>

\* a faulty variant: the loop stops one file early
FeederLoopDone_OffByOne(i, files) == i >= Len(files)

\* a faulty variant: the loop never reaches close(article_chan)
FeederLoopDone_NoClose(i, files) == FALSE

\* the feeder's loop over file_list is over
FeederLoopDone(i, files) == i > Len(files)

\* main.go:269  close(article_chan)
FeederClose ==
    /\ Alive
    /\ pc_feeder = "load"
    /\ FeederLoopDone(feed_i, file_list)
    /\ chan_closed' = TRUE
    /\ pc_feeder' = "closed"
    /\ UNCHANGED <<dir, timeVars, schema_root, input_path, ms, elapsed_str, input_is_dir, long_error, doVars, jobVars, chan_cap, article_chan, feed_i, feed_held, reads, disp_held,
                   poolVars, pc, exit_code>>

\* main.go:265  the deferred wg.Done()
FeederDone ==
    /\ Alive
    /\ pc_feeder = "closed"
    /\ pc_feeder' = "done"
    /\ UNCHANGED <<dir, timeVars, schema_root, input_path, ms, elapsed_str, input_is_dir, long_error, doVars, jobVars, chanVars, feed_i, feed_held, reads, disp_held, poolVars,
                   pc, exit_code>>

\* a faulty variant: the receive leaves the Article in the channel
DispatchRecv_Peek ==
    /\ pc = "range"
    /\ article_chan # <<>>
    /\ disp_held' = <<Head(article_chan)>>
    /\ pc' = "go"
    /\ UNCHANGED <<dir, timeVars, schema_root, input_path, ms, elapsed_str, input_is_dir, long_error, doVars, jobVars, chanVars, feederVars, poolVars, exit_code>>

\* a faulty variant: the receive takes the Article sent last
DispatchRecv_Newest ==
    /\ pc = "range"
    /\ article_chan # <<>>
    /\ disp_held' = <<article_chan[Len(article_chan)]>>
    /\ article_chan' = SubSeq(article_chan, 1, Len(article_chan) - 1)
    /\ pc' = "go"
    /\ UNCHANGED <<dir, timeVars, schema_root, input_path, ms, elapsed_str, input_is_dir, long_error, doVars, jobVars, chan_cap, chan_closed, feederVars, poolVars, exit_code>>

\* main.go:280  the range loop receives the next Article
DispatchRecv ==
    /\ pc = "range"
    /\ article_chan # <<>>
    /\ disp_held' = <<Head(article_chan)>>
    /\ article_chan' = Tail(article_chan)
    /\ pc' = "go"
    /\ UNCHANGED <<dir, timeVars, schema_root, input_path, ms, elapsed_str, input_is_dir, long_error, doVars, jobVars, chan_cap, chan_closed, feederVars, poolVars, exit_code>>

\* main.go:280  the range loop ends: the channel is closed and drained
DispatchEnd ==
    /\ pc = "range"
    /\ article_chan = <<>>
    /\ chan_closed
    /\ pc' = "wg_wait"
    /\ UNCHANGED <<dir, timeVars, schema_root, input_path, ms, elapsed_str, input_is_dir, long_error, doVars, jobVars, chanVars, feederVars, disp_held, poolVars, exit_code>>

\* the task of disp_held goes to a worker
StartTask ==
    /\ running' = running \cup {disp_held[1]}
    /\ disp_held' = <<>>
    /\ pc' = "range"

\* worker goroutines of the pool that have not returned
LiveWorkers == n_idle + Cardinality(running)

\* a faulty variant: the limiter never refuses
CanSpawn_NoLimit(limit, live) == TRUE

\* the pool may start another worker goroutine: no limiter, or the limiter has room
CanSpawn(limit, live) == limit = 0 \/ live < limit

\* main.go:282  worker_pool.Go: a worker blocked on the task channel takes the task
PoolGoHandoff ==
    /\ pc = "go"
    /\ n_idle > 0
    /\ n_idle' = n_idle - 1
    /\ StartTask
    /\ UNCHANGED <<dir, timeVars, schema_root, input_path, ms, elapsed_str, input_is_dir, long_error, doVars, jobVars, chanVars, feederVars, max_goroutines, tasks_closed,
                   panic_caught, result_list, status_lines, exit_code>>

\* main.go:282  worker_pool.Go: a new worker goroutine is started and takes the task
PoolGoSpawn ==
    /\ pc = "go"
    /\ CanSpawn(max_goroutines, LiveWorkers)
    /\ StartTask
    /\ UNCHANGED <<dir, timeVars, schema_root, input_path, ms, elapsed_str, input_is_dir, long_error, doVars, jobVars, chanVars, feederVars, max_goroutines, n_idle,
                   tasks_closed, panic_caught, result_list, status_lines, exit_code>>

\* a faulty variant: a lost update, the new Result overwrites the last one
AddResult_Unsynchronised(results, result) ==
    IF results = <<>> THEN <<result>> ELSE [results EXCEPT ![Len(results)] = result]

\* main.go:282-288  the pool appends the task's Result to its results under a mutex
AddResult(results, result) == Append(results, result)

\* a faulty variant: the status line is printed whatever print_status is
PrintStatus_Always(lines, result, enabled) == [lines EXCEPT ![result.FileName] = @ + 1]

\* main.go:285  println(result.String()) when print_status is set
PrintStatus(lines, result, enabled) ==
    IF enabled THEN [lines EXCEPT ![result.FileName] = @ + 1] ELSE lines

\* main.go:282-288  a worker runs its task to the end: validate_article, the status
\* line, the Result added to the pool's results; a missing schema panics, the pool
\* catches the panic and the worker goroutine returns
WorkerFinish(a) ==
    /\ Alive
    /\ a \in running
    /\ running' = running \ {a}
    /\ IF SchemaPresent(a)
         THEN /\ result_list' = AddResult(result_list, validate_article(a, capture_error))
              /\ status_lines' = PrintStatus(status_lines, validate_article(a, capture_error),
                                             print_status)
              /\ n_idle' = n_idle + 1
              /\ UNCHANGED panic_caught
         ELSE /\ panic_caught' = TRUE
              /\ UNCHANGED <<result_list, status_lines, n_idle>>
    /\ UNCHANGED <<dir, timeVars, schema_root, input_path, ms, elapsed_str, input_is_dir, long_error, doVars, jobVars, chanVars, feederVars, disp_held, max_goroutines,
                   tasks_closed, pc, exit_code>>

\* a worker blocked on the closed task channel returns
WorkerExit ==
    /\ Alive
    /\ tasks_closed
    /\ n_idle > 0
    /\ n_idle' = n_idle - 1
    /\ UNCHANGED <<dir, timeVars, schema_root, input_path, ms, elapsed_str, input_is_dir, long_error, doVars, jobVars, chanVars, feederVars, disp_held, max_goroutines,
                   running, tasks_closed, panic_caught, result_list, status_lines, pc, exit_code>>

\* wg.Wait() may return
FeederFinished(p) == p = "done"

\* main.go:291  wg.Wait()
WgWait ==
    /\ pc = "wg_wait"
    /\ FeederFinished(pc_feeder)
    /\ pc' = "pool_wait"
    /\ UNCHANGED <<dir, timeVars, schema_root, input_path, ms, elapsed_str, input_is_dir, long_error, doVars, jobVars, chanVars, feederVars, disp_held, poolVars, exit_code>>

\* main.go:292  worker_pool.Wait() closes the pool's task channel
PoolWaitClose ==
    /\ pc = "pool_wait"
    /\ tasks_closed' = TRUE
    /\ pc' = "pool_join"
    /\ UNCHANGED <<dir, timeVars, schema_root, input_path, ms, elapsed_str, input_is_dir, long_error, doVars, jobVars, chanVars, feederVars, disp_held, max_goroutines,
                   n_idle, running, panic_caught, result_list, status_lines, exit_code>>

\* a faulty variant: Wait returns without joining the workers
PoolDrained_NoWait(live) == TRUE

\* worker_pool.Wait() may return: every worker goroutine has returned
PoolDrained(live) == live = 0

\* main.go:292-294  worker_pool.Wait() returns the results, or panics again with a
\* worker's panic; process_files_with_feeder returns
PoolJoin ==
    /\ pc = "pool_join"
    /\ PoolDrained(LiveWorkers)
    /\ IF panic_caught
         THEN /\ Crash
              /\ UNCHANGED end_time
         ELSE /\ pc' = IF pass = 1 THEN "summary" ELSE "report"
              /\ end_time' = <<Len(result_list)>>
              /\ UNCHANGED exit_code
    /\ UNCHANGED <<dir, start_time, schema_root, input_path, ms, elapsed_str, input_is_dir, long_error, doVars, jobVars, chanVars, feederVars, disp_held, poolVars>>

\* ------------------------------------------------------------ do: summary and report
\* main.go:388
IsFailure(result) == ~result.Success

\* a faulty variant: every Result counted as a failure
Failures_All(results) == results

\* a faulty variant: each failure is put in front of the ones found before
Failures_Prepended(results) == Reverse(SelectSeq(results, IsFailure))

\* main.go:386-391
Failures(results) == SelectSeq(results, IsFailure)

\* a faulty variant: the thresholds are exclusive
format_ms_Exclusive(m) ==
    IF m > 60000 THEN [n |-> (m \div 1000) \div 60, unit |-> "m"]
    ELSE IF m > 1000 THEN [n |-> m \div 1000, unit |-> "s"]
    ELSE [n |-> m, unit |-> "ms"]

\* main.go:222-233  the string is the number n followed by the unit
format_ms(m) ==
    IF m >= 60000 THEN [n |-> (m \div 1000) \div 60, unit |-> "m"]
    ELSE IF m >= 1000 THEN [n |-> m \div 1000, unit |-> "s"]
    ELSE [n |-> m, unit |-> "ms"]

\* a faulty variant: the loop keeps the largest Elapsed
CpuTime_Largest(results) ==
    IF results = <<>> THEN 0
    ELSE LET m == CHOOSE i \in DOMAIN results :
                      \A j \in DOMAIN results : results[j].Elapsed <= results[i].Elapsed
         IN results[m].Elapsed

\* main.go:381-384  cpu_time_ms after k iterations of the loop over result_list
RECURSIVE CpuTimeAfter(_, _)
CpuTimeAfter(results, k) ==
    IF k = 0 THEN 0 ELSE CpuTimeAfter(results, k - 1) + results[k].Elapsed

\* main.go:381-384  cpu_time_ms after the loop
CpuTime(results) == CpuTimeAfter(results, Len(results))

\* main.go:394  the counts and the cpu-time of the summary line
SummaryLine(articles, fails, workers, cpu) ==
    [articles |-> articles, failures |-> Len(fails), workers |-> workers,
     cpu_time |-> format_ms(cpu)]

\* a faulty variant: the failure section is entered whatever the number of failures
NeedsRevalidation_Always(fails) == TRUE

\* main.go:396  if len(failures) > 0
NeedsRevalidation(fails) == Len(fails) > 0

\* main.go:379-396  the summary; the average divides by sample_size, and an integer
\* division by zero panics before the line is printed
DoSummary ==
    /\ pc = "summary"
    /\ cpu_time_ms' = <<CpuTime(result_list)>>
    /\ failures' = Failures(result_list)
    /\ IF sample_size = 0
         THEN /\ Crash
              /\ UNCHANGED summary
         ELSE /\ summary' = <<SummaryLine(sample_size, Failures(result_list), num_workers,
                                          CpuTime(result_list))>>
              /\ IF NeedsRevalidation(Failures(result_list))
                   THEN /\ pc' = "revalidate"
                        /\ UNCHANGED exit_code
                   ELSE /\ pc' = "exit"
                        /\ exit_code' = 0
    /\ UNCHANGED <<dir, timeVars, schema_root, input_path, ms, elapsed_str, input_is_dir, long_error, path_list, sample_size, num_workers, buffer_size, report>>
    /\ UNCHANGED <<jobVars, chanVars, feederVars, disp_held, poolVars>>

\* a faulty variant: the cap is not turned into a last index
LastRevalidated_NoDecrement(n) == IF n > num_to_revalidate THEN num_to_revalidate ELSE n - 1

\* main.go:408-414  the last index (from 0) of the failures to revalidate
LastRevalidated(n) == IF n > num_to_revalidate THEN num_to_revalidate - 1 ELSE n - 1

\* main.go:418-421
RevalidateList(fails) == [i \in 1..(LastRevalidated(Len(fails)) + 1) |-> fails[i].FileName]

\* a faulty variant: the revalidation pass runs with one worker per CPU
RevalidationWorkers_PerCPU(nw) == NumCPU

\* a faulty variant: the revalidation pass keeps the worker count of the main pass
RevalidationWorkers_Kept(nw) == nw

\* main.go:423  the revalidation pass runs with one worker
RevalidationWorkers(nw) == 1

\* main.go:396-425  the file list and the settings of the revalidation pass
DoRevalidate ==
    /\ pc = "revalidate"
    /\ file_list' = RevalidateList(failures)
    /\ num_workers' = RevalidationWorkers(num_workers)
    /\ capture_error' = TRUE
    /\ print_status' = FALSE
    /\ pc' = "pass_start"
    /\ UNCHANGED <<dir, timeVars, schema_root, input_path, ms, elapsed_str, input_is_dir, long_error, path_list, sample_size, buffer_size, failures, cpu_time_ms, summary, report,
                   exit_code, pass>>
    /\ UNCHANGED <<chanVars, feederVars, disp_held, poolVars>>

\* main.go:427-431  one entry of the detailed report per revalidated Result
Report(results, fails) ==
    [i \in 1..Len(results) |->
        [index |-> i, total |-> Len(fails), FileName |-> results[i].FileName,
         Error |-> results[i].Error]]

\* main.go:426-433
DoReport ==
    /\ pc = "report"
    /\ report' = Report(result_list, failures)
    /\ pc' = "exit"
    /\ exit_code' = 1
    /\ UNCHANGED <<dir, timeVars, schema_root, input_path, ms, elapsed_str, input_is_dir, long_error, path_list, sample_size, num_workers, buffer_size, failures, cpu_time_ms, summary>>
    /\ UNCHANGED <<jobVars, chanVars, feederVars, disp_held, poolVars>>

\* ------------------------------------------------------------ specification
Main ==
    \/ DoConfig
    \/ DoSample
    \/ DoSingle
    \/ PassStart
    \/ TakeStart
    \/ DispatchRecv
    \/ DispatchEnd
    \/ PoolGoHandoff
    \/ PoolGoSpawn
    \/ WgWait
    \/ PoolWaitClose
    \/ PoolJoin
    \/ DoSummary
    \/ DoRevalidate
    \/ DoReport

Feeder ==
    \/ FeederLoad
    \/ FeederPush
    \/ FeederClose
    \/ FeederDone

Workers ==
    \/ \E a \in running : WorkerFinish(a)
    \/ WorkerExit

Next == Main \/ Feeder \/ Workers

Spec == Init /\ [][Next]_vars

\* ------------------------------------------------------------ after the main pass
\* the sequence s with its entries k and k + 1 exchanged; s itself for k = 0
Swap(s, k) ==
    [i \in DOMAIN s |-> IF k > 0 /\ i = k THEN s[k + 1]
                         ELSE IF k > 0 /\ i = k + 1 THEN s[k] ELSE s[i]]

\* main.go:292-294  the state in which the main pass over the n files of directory d
\* has returned to do with the given Results
ReturnedWith(n, d, nw, bs, results) ==
    /\ dir = d
    /\ schema_root = GoodRoot
    /\ input_path = "present"
    /\ ms = 0
    /\ elapsed_str = <<>>
    /\ input_is_dir = TRUE
    /\ long_error = <<>>
    /\ path_list = Identity(n)
    /\ sample_size = n
    /\ num_workers = nw
    /\ buffer_size = bs
    /\ pc = "summary"
    /\ exit_code = -1
    /\ pass = 1
    /\ file_list = Reverse(Identity(n))
    /\ capture_error = FALSE
    /\ print_status = TRUE
    /\ chan_cap = ChanCap(bs, n)
    /\ article_chan = <<>>
    /\ chan_closed = TRUE
    /\ pc_feeder = "done"
    /\ feed_i = n + 1
    /\ feed_held = <<>>
    /\ reads = [f \in 1..n |-> 1]
    /\ start_time = <<0>>
    /\ end_time = <<n>>
    /\ disp_held = <<>>
    /\ max_goroutines = PoolLimit(nw)
    /\ n_idle = 0
    /\ running = {}
    /\ tasks_closed = TRUE
    /\ panic_caught = FALSE
    /\ result_list = results
    /\ status_lines = [f \in 1..n |-> 1]
    /\ failures = <<>>
    /\ cpu_time_ms = <<>>
    /\ summary = <<>>
    /\ report = <<>>

\* main.go:282-288  the Results are those of validate_article for the files in the
\* given order
ReturnedMainPass(n, d, nw, bs, order) ==
    ReturnedWith(n, d, nw, bs,
                 [i \in 1..n |-> validate_article(
                                     [Type |-> ToUpper(d[order[i]].status),
                                      FileName |-> order[i],
                                      Data |-> d[order[i]].article], FALSE)])

\* The main pass over a directory of more than num_to_revalidate failing documents
\* has returned from a pool of two workers: the Results are in the order the
\* documents were fed, or two documents fed one after the other completed in the
\* other order.
InitReturned ==
    \E n \in (num_to_revalidate + 1)..(num_to_revalidate + CapMargin) :
    \E k \in 0..(n - 1) :
        ReturnedMainPass(n, [i \in 1..n |-> Invalid_VOR], 2, 1, Swap(Reverse(Identity(n)), k))

\* do from the return of the main pass on
NextReturned ==
    \/ DoSummary
    \/ DoRevalidate
    \/ PassStart
    \/ TakeStart
    \/ DispatchRecv
    \/ DispatchEnd
    \/ PoolGoHandoff
    \/ PoolGoSpawn
    \/ WgWait
    \/ PoolWaitClose
    \/ PoolJoin
    \/ DoReport
    \/ Feeder
    \/ Workers

ReturnedSpec == InitReturned /\ [][NextReturned]_vars

\* ------------------------------------------------------------ the cpu time
\* main.go:211  the values of Elapsed: nothing measurable, a millisecond, just under
\* a second, a minute
ElapsedValues == {0, 1, 999, 60000}

\* The main pass over up to MaxResults documents, valid or not, has returned from
\* one worker; the Elapsed of each Result is any of ElapsedValues.
InitCpu ==
    \E n \in 0..MaxResults : \E d \in [1..n -> GoodKinds] : \E e \in [1..n -> ElapsedValues] :
        ReturnedWith(n, d, 1, 1,
                     [i \in 1..n |->
                         [Type |-> ToUpper(d[n + 1 - i].status),
                          FileName |-> n + 1 - i,
                          Elapsed |-> e[i],
                          Success |-> (validate(d[n + 1 - i].article) = "nil"),
                          Error |-> "nil"]])

\* main.go:379-396  do from the return of the main pass to the summary
NextCpu == DoSummary

CpuSpec == InitCpu /\ [][NextCpu]_vars

\* ------------------------------------------------------------ format_ms
\* a call of format_ms on a number of milliseconds from 0 to MaxMs
InitFormat ==
    \E m \in 0..MaxMs : InitState(GoodRoot, "present", 0, <<>>, TRUE, <<>>, -1, 0, 1, m)

FormatMs ==
    /\ elapsed_str = <<>>
    /\ elapsed_str' = <<format_ms(ms)>>
    /\ UNCHANGED <<dir, timeVars, schema_root, input_path, ms, input_is_dir, long_error, doVars, jobVars, chanVars, feederVars,
                   disp_held, poolVars, pc, exit_code>>

NextFormat == FormatMs

FormatSpec == InitFormat /\ [][NextFormat]_vars

\* The Go scheduler does not leave the process idle while a goroutine can take a step.
FairSpec == Spec /\ WF_vars(Next)

\* ------------------------------------------------------------ vocabulary of the properties
\* process_files_with_feeder has just returned to do
Returned == pc \in {"summary", "report"}

\* a pass is under way: between the set-up of the channel and the return
InPass == pc \in {"start", "range", "go", "wg_wait", "pool_wait", "pool_join"}

\* the summary line has just been printed, the main pass's data is still in place
AtSummary == pass = 1 /\ summary # <<>> /\ pc \in {"revalidate", "exit"}

Count(s, x) == Cardinality({i \in DOMAIN s : s[i] = x})

FileNames(results) == [i \in DOMAIN results |-> results[i].FileName]

\* Documents loaded from storage and not yet turned into a Result
InFlight == Len(feed_held) + Len(article_chan) + Len(disp_held) + Cardinality(running)

\* every file of file_list loads and has a schema
AllGood == \A i \in DOMAIN file_list : dir[file_list[i]] \in GoodKinds

\* ------------------------------------------------------------ C1
\* C1: when process_files_with_feeder returns, every path of file_list occurs in the
\* FileNames of the returned Results exactly as often as in file_list: no Result is
\* lost and none is duplicated, whatever the buffer size, the worker count and the
\* interleaving.
C1_ResultsMatchFed ==
    Returned =>
        \A f \in DOMAIN dir : Count(FileNames(result_list), f) = Count(file_list, f)

\* a pass of the long directory through a buffer smaller than the job and an
\* unbounded pool returned its Results in another order than they were fed
C1_Witness ==
    /\ Returned
    /\ pass = 1
    /\ Len(file_list) = LongFiles
    /\ chan_cap < Len(file_list)
    /\ max_goroutines = 0
    /\ FileNames(result_list) # file_list

\* ------------------------------------------------------------ C2
\* C2: the article count of the summary line equals the number of Documents the
\* feeder pushed and the number of Results the main pass returned.
C2_TotalIsFedCount ==
    AtSummary =>
        /\ summary[1].articles = feed_i - 1
        /\ summary[1].articles = Len(file_list)
        /\ summary[1].articles = Len(result_list)

\* a summary for a sample from which ineligible entries were filtered out
C2_Witness ==
    /\ AtSummary
    /\ summary[1].articles >= 2
    /\ summary[1].articles < Len(path_list)
    /\ \E i \in 1..summary[1].articles : ~Eligible(path_list[i])

\* ------------------------------------------------------------ C3
\* C3: the failure count of the summary line is the number of fed documents that
\* fail schema validation, whatever the interleaving, worker count and buffer size.
C3_FailureCount ==
    AtSummary =>
        summary[1].failures =
            Cardinality({i \in DOMAIN file_list : dir[file_list[i]].article = "invalid"})

\* the long directory, 2 of its documents invalid, buffer size 2 and 2 workers
C3_Witness ==
    /\ AtSummary
    /\ summary[1].articles = LongFiles
    /\ summary[1].failures = 2
    /\ buffer_size = 2
    /\ num_workers = 2

\* ------------------------------------------------------------ C4
\* C4 as claimed: during a pass the number of Documents loaded and not yet turned into
\* a Result is bounded by the buffer size and the worker count alone, not by the
\* length of the file list, also for num_workers = -1: a file list longer than
\* buffer + workers + 2 (a pool without limit contributing no workers) is never in
\* memory as a whole.
C4_BoundedInFlight_Claimed ==
    (/\ InPass
     /\ Len(file_list) > buffer_size + (IF num_workers >= 1 THEN num_workers ELSE 0) + 2)
        => InFlight < Len(file_list)

\* C4 as amended: for a positive worker count the number of Documents loaded and not
\* yet turned into a Result is at most buffer_size + num_workers + 2, whatever the
\* length of the file list.
C4_BoundedInFlight ==
    (InPass /\ num_workers >= 1) => InFlight <= buffer_size + num_workers + 2

\* the bound is met while a file of the list is still unread
C4_Witness ==
    /\ InPass
    /\ num_workers >= 1
    /\ InFlight = buffer_size + num_workers + 2
    /\ feed_i < Len(file_list)

\* ------------------------------------------------------------ C5
\* C5: article_chan never holds more than min(buffer_size, len(file_list)) Documents,
\* and the feeder's send cannot proceed while the channel holds that many.
C5_ChannelWithinCapacity ==
    /\ Len(article_chan) <= Min(buffer_size, Len(file_list))
    /\ (pc_feeder = "push" /\ Len(article_chan) = Min(buffer_size, Len(file_list)))
           => ~ENABLED FeederPush

\* the feeder is blocked on a full channel of capacity buffer_size = 2
C5_Witness ==
    /\ pc_feeder = "push"
    /\ Len(article_chan) = 2
    /\ buffer_size = 2
    /\ Len(file_list) > 2
    /\ ~ENABLED FeederPush

\* ------------------------------------------------------------ C6
\* C6: article_chan is closed only once the feeder has pushed a Document for every
\* path of file_list, in a pass it is closed once and stays closed, nothing is pushed
\* after the close, and the pass does not return without the close.
C6_CloseAfterAllPushed ==
    /\ [][/\ (~chan_closed /\ chan_closed') =>
                  /\ feed_i = Len(file_list) + 1
                  /\ feed_held = <<>>
                  /\ pc_feeder = "load"
          /\ Len(article_chan') > Len(article_chan) =>
                  /\ ~chan_closed
                  /\ feed_i \in DOMAIN file_list
                  /\ feed_i' = feed_i + 1
                  /\ article_chan' = Append(article_chan, read_article_data(file_list[feed_i]))
          /\ (chan_closed /\ pass' = pass) =>
                  /\ chan_closed'
                  /\ feed_i' = feed_i
                  /\ pc_feeder' \in {"closed", "done"}
                  /\ (pc_feeder = "done" => pc_feeder' = "done")]_vars
    /\ [](Returned => chan_closed)

\* the channel is closed while Documents of a list of several files are still in it
C6_Witness ==
    /\ chan_closed
    /\ pass = 1
    /\ Len(file_list) >= 3
    /\ Len(article_chan) = 2

\* ------------------------------------------------------------ C7
\* C7: at the return of process_files_with_feeder the feeder has finished and closed
\* the channel, the channel is empty, no Document is held by the range loop, no
\* worker is running or alive, and every path of file_list has exactly one Result.
C7_ReturnAfterJoin ==
    Returned =>
        /\ pc_feeder = "done"
        /\ chan_closed
        /\ article_chan = <<>>
        /\ disp_held = <<>>
        /\ running = {}
        /\ n_idle = 0
        /\ \A i \in DOMAIN file_list : Count(FileNames(result_list), file_list[i]) = 1

\* a main pass with several workers has returned
C7_Witness ==
    /\ Returned
    /\ pass = 1
    /\ max_goroutines = 2
    /\ Len(result_list) >= 3

\* ------------------------------------------------------------ C8
\* C8: under fair scheduling every pass over a file list whose documents all load and
\* have a schema returns, whatever the buffer size and the worker count, for the
\* empty list and for lists longer than the buffer.
C8_PassReturns == (pc = "pass_start" /\ AllGood) ~> Returned

\* a pass over more files than the buffer holds, with one worker, has returned
C8_Witness ==
    /\ Returned
    /\ pass = 1
    /\ Len(file_list) = LongFiles
    /\ chan_cap = 1
    /\ max_goroutines = 1

\* ------------------------------------------------------------ C9
\* C9: with a positive num_workers at most num_workers tasks run validate_article at
\* any moment; a num_workers of 0 is replaced by the CPU count before a pass starts.
C9_WorkerLimit ==
    /\ []((InPass /\ num_workers >= 1) => Cardinality(running) <= num_workers)
    /\ []((pc = "pass_start" \/ InPass) => num_workers # 0)
    /\ [][(pc = "config" /\ num_workers = 0 /\ pc' = "sample") => num_workers' = NumCPU]_vars

\* the pool is full: num_workers = 2 tasks run and the range loop waits with a third
C9_Witness ==
    /\ pc = "go"
    /\ num_workers = 2
    /\ Cardinality(running) = 2
    /\ n_idle = 0

\* ------------------------------------------------------------ C10
\* C10: a document that fails schema validation becomes a Result with Success = FALSE
\* and aborts nothing: a pass over loadable documents with a schema returns one Result
\* per file, Success telling whether the file validates, and the process panics only
\* when a file of the list is malformed or has no schema, or the sample is empty.
C10_SoftFailure ==
    /\ Returned =>
          \A i \in DOMAIN file_list :
              \E j \in DOMAIN result_list :
                  /\ result_list[j].FileName = file_list[i]
                  /\ result_list[j].Success = (dir[file_list[i]].article = "valid")
    /\ exit_code = 2 => (~AllGood \/ file_list = <<>>)

\* a returned main pass whose Results hold a failure followed by a success
C10_Witness ==
    /\ Returned
    /\ pass = 1
    /\ \E j, k \in DOMAIN result_list :
          /\ j < k
          /\ ~result_list[j].Success
          /\ result_list[k].Success

\* ------------------------------------------------------------ C11
\* the sample of the run holds a document read_article_data panics on
SampleMalformed ==
    /\ pc \notin {"config", "sample"}
    /\ \E i \in DOMAIN file_list : Malformed(file_list[i])

\* C11: a run whose sample holds a malformed document (no 'article.status', or no
\* 'article') ends with a non-zero exit status, without a summary line, without a
\* second call of process_files_with_feeder, and without a Result or a status line
\* for a malformed document.
C11_MalformedAborts ==
    /\ [](SampleMalformed =>
            /\ summary = <<>>
            /\ report = <<>>
            /\ pass <= 1
            /\ exit_code \in {-1, 2}
            /\ \A j \in DOMAIN result_list : ~Malformed(result_list[j].FileName)
            /\ \A f \in DOMAIN dir : Malformed(f) => status_lines[f] = 0)
    /\ (SampleMalformed ~> exit_code = 2)

\* the feeder panicked on the last file of the sample after the Results of the
\* other files were collected
C11_Witness ==
    /\ exit_code = 2
    /\ pc_feeder = "panicked"
    /\ feed_i = Len(file_list)
    /\ Len(result_list) = 2
    /\ dir[file_list[feed_i]] = NoArticle

\* ------------------------------------------------------------ C12
\* the file has no 'article.status' field
MissingTag(f) == dir[f].status = NoField

\* the main pass's sample holds a document without its type-tag field
SampleMissingTag ==
    /\ pc \notin {"config", "sample"}
    /\ \E i \in DOMAIN file_list : MissingTag(file_list[i])

\* position in the feed order of the first document without type tag
FirstMissingTag ==
    CHOOSE i \in DOMAIN file_list :
        MissingTag(file_list[i]) /\ \A j \in 1..(i - 1) : ~MissingTag(file_list[j])

\* C12 as claimed: when the sample holds a document without its type-tag field, no
\* status line of any document of the run is printed, wherever that document sits in
\* the feed order.
C12_NoStatusLine_Claimed ==
    SampleMissingTag => \A f \in DOMAIN dir : status_lines[f] = 0

\* C12 as amended: when the sample holds a document without its type-tag field, the
\* Results of the pass are never returned to do, neither summary nor report is
\* printed, and a status line is printed at most once and only for documents fed
\* before the first such document.
C12_NoResultSet ==
    SampleMissingTag =>
        /\ ~Returned
        /\ pass <= 1
        /\ summary = <<>>
        /\ report = <<>>
        /\ \A i \in DOMAIN file_list :
              /\ status_lines[file_list[i]] <= 1
              /\ status_lines[file_list[i]] > 0 => i < FirstMissingTag

\* the run was aborted by the document without type tag, last in the feed order,
\* after the status lines of the two documents before it were printed
C12_Witness ==
    /\ SampleMissingTag
    /\ exit_code = 2
    /\ FirstMissingTag = 3
    /\ status_lines[file_list[1]] = 1
    /\ status_lines[file_list[2]] = 1

\* ------------------------------------------------------------ C13
\* C13: from the moment a worker's validate_article has panicked on a type tag without
\* schema, no validation of another document starts and no further status line is
\* printed, and a document without schema is never recorded as a Result.
C13_ImmediateAbort ==
    /\ [][panic_caught =>
              /\ running' \subseteq running
              /\ status_lines' = status_lines
              /\ result_list' = result_list]_vars
    /\ [](\A j \in DOMAIN result_list :
              SchemaPresent(read_article_data(result_list[j].FileName)))

\* ------------------------------------------------------------ C14
\* the revalidation pass has its file list: from main.go:421 on
Revalidating == pass >= 1 /\ (pc = "pass_start" \/ pass = 2)

\* C14: the paths handed to the revalidation pass are the FileNames of the first
\* min(25, len(failures)) entries of failures, in the order of failures, none repeated
\* and none skipped; failures is not empty and is the list of the failing Results of
\* the main pass in the order of result_list.
C14_RevalidateFirstFailures ==
    /\ Revalidating =>
          /\ Len(failures) > 0
          /\ file_list = [i \in 1..Min(num_to_revalidate, Len(failures)) |->
                              failures[i].FileName]
          /\ \A i, j \in DOMAIN file_list : file_list[i] = file_list[j] => i = j
    /\ (pass = 1 /\ pc = "pass_start") =>
          failures = SelectSeq(result_list, LAMBDA r : ~r.Success)

\* more failing Results than the cap, a valid one among them: the revalidation pass
\* got the first num_to_revalidate failures
C14_Witness ==
    /\ Revalidating
    /\ Len(failures) = num_to_revalidate + 1
    /\ Len(file_list) = num_to_revalidate
    /\ Len(result_list) = num_to_revalidate + 2
    /\ ~result_list[Len(result_list)].Success
    /\ result_list[Len(result_list) - 1].Success

\* ------------------------------------------------------------ C15
\* C15: the detailed report lists the revalidated documents in the order of failures:
\* its i-th entry is numbered i, names the FileName of the i-th element of failures and
\* gives the total number of failures; it has min(25, len(failures)) entries, each
\* with the validation error captured by the revalidation pass.
C15_ReportInFailuresOrder ==
    report # <<>> =>
        /\ Len(report) = Min(num_to_revalidate, Len(failures))
        /\ \A i \in DOMAIN report :
              /\ report[i].index = i
              /\ report[i].total = Len(failures)
              /\ report[i].FileName = failures[i].FileName
              /\ report[i].Error = "ValidationError"

\* a report of two failures that the main pass collected in another order than it
\* was fed them (the feed order is descending)
C15_Witness ==
    /\ Len(report) = 2
    /\ Len(failures) = 2
    /\ failures[1].FileName < failures[2].FileName
    /\ exit_code = 1

\* ------------------------------------------------------------ C16
\* C16: process_files_with_feeder is called a second time if and only if the main pass
\* returned at least one failing Result: after a summary with failure count 0 (every
\* document of the sample valid) the run ends with a single pass, after a summary with
\* failures the run goes on to the revalidation pass, and there is never a third pass.
C16_RevalidateIffFailures ==
    /\ pass <= 2
    /\ pass = 2 =>
          /\ summary # <<>>
          /\ summary[1].failures > 0
          /\ Len(failures) = summary[1].failures
          /\ \A j \in DOMAIN failures : ~failures[j].Success
    /\ (AtSummary /\ summary[1].failures = 0) =>
          /\ pc = "exit"
          /\ failures = <<>>
          /\ \A i \in DOMAIN file_list : dir[file_list[i]].article = "valid"
    /\ (AtSummary /\ summary[1].failures > 0) => pc = "revalidate"
    /\ (pc = "exit" /\ summary # <<>>) => (pass = 2 <=> Len(failures) > 0)

\* a run over three valid documents ended after the summary, with a single pass
C16_Witness ==
    /\ pc = "exit"
    /\ pass = 1
    /\ summary # <<>>
    /\ summary[1].articles = 3
    /\ summary[1].failures = 0
    /\ report = <<>>

\* ------------------------------------------------------------ C17
\* the process has ended, otherwise than by a die() on a flag value
RunEnded == pc \in {"exit", "crashed"} /\ ~(input_is_dir /\ pass = 0)

\* every document of the input loads and has a schema
DocsGood == \A f \in DOMAIN dir : (Eligible(f) \/ ~input_is_dir) => dir[f] \in GoodKinds

\* exit codes of an ended run over good documents: 0 goes with no failing document,
\* 1 with a failing one, in directory mode after the summary and the report
ExitCodeTellsFailure ==
    /\ exit_code = 0 =>
          IF input_is_dir
            THEN \A i \in DOMAIN file_list : dir[file_list[i]].article = "valid"
            ELSE dir[1].article = "valid"
    /\ exit_code = 1 =>
          IF input_is_dir
            THEN /\ summary # <<>>
                 /\ report # <<>>
                 /\ file_list # <<>>
                 /\ \A i \in DOMAIN file_list : dir[file_list[i]].article = "invalid"
            ELSE dir[1].article = "invalid"

\* C17: a run whose documents all load and have known type tags ends with exit code 0
\* if no document fails validation and with 1 if one fails, in directory mode only
\* after the summary and the detailed report were printed.
C17_ExitCodes ==
    (RunEnded /\ DocsGood) => (exit_code \in {0, 1} /\ ExitCodeTellsFailure)

\* the same for the runs that processed at least one document
ExitCodes_NonEmptySample ==
    (RunEnded /\ DocsGood /\ (file_list # <<>> \/ ~input_is_dir)) =>
        (exit_code \in {0, 1} /\ ExitCodeTellsFailure)

\* ------------------------------------------------------------ C18
\* the entries of the directory that are files with the .json extension
EligibleNames == {f \in DOMAIN dir : Eligible(f)}

\* the sample size asked for, -1 standing for every entry
Requested(S, n) == IF S = -1 THEN n ELSE Min(S, n)

\* do takes the sample: the step from the flags to the file list of the main pass
SamplingStep == pc = "sample" /\ input_is_dir /\ pc' = "pass_start"

\* C18 as claimed: the files fed are the first min(S, E) entries of the ascending
\* list of the E eligible entries: the listing is filtered and then truncated.
C18_FilterThenTruncate_Claimed ==
    [][SamplingStep =>
          LET k == Requested(sample_size, Cardinality(EligibleNames))
          IN /\ Names(file_list') =
                   {f \in EligibleNames : Cardinality({g \in EligibleNames : g < f}) < k}
             /\ Len(file_list') = k]_vars

\* C18 as amended: the files fed are the eligible entries among the first min(S, N)
\* entries of the ascending list of all N entries of the directory, each once: the
\* listing is truncated and then filtered.
C18_TruncateThenFilter ==
    [][SamplingStep =>
          LET k == Requested(sample_size, Len(path_list))
              kept == {f \in EligibleNames : Cardinality({g \in DOMAIN dir : g < f}) < k}
          IN /\ Names(file_list') = kept
             /\ Len(file_list') = Cardinality(kept)]_vars

\* two entries were asked for, the lowest name is not eligible and the two others
\* are: one file is fed
C18_Witness ==
    /\ pc = "pass_start"
    /\ pass = 0
    /\ Len(path_list) = 3
    /\ ~Eligible(1)
    /\ Eligible(2)
    /\ Eligible(3)
    /\ file_list = <<2>>

\* ------------------------------------------------------------ C19
\* the feeder sends the Article it holds
PushStep == pc_feeder = "push" /\ pc_feeder' = "load" /\ Len(article_chan') > Len(article_chan)

\* C19: the file list of the main pass is in strictly descending order of file name,
\* whatever the order of the directory listing and the sample size, and the feeder
\* pushes its documents in that order: each push is the document of the next path of
\* file_list, a name lower than every name pushed before.
C19_PushedDescending ==
    /\ [](~Revalidating => \A i, j \in DOMAIN file_list : i < j => file_list[i] > file_list[j])
    /\ [][(PushStep /\ pass = 1) =>
              /\ article_chan'[Len(article_chan')] = read_article_data(file_list[feed_i])
              /\ feed_i' = feed_i + 1
              /\ \A j \in 1..(feed_i - 1) : file_list[j] > file_list[feed_i]]_vars
    /\ []((pass = 1 /\ InPass) => \A k \in DOMAIN article_chan :
              article_chan[k].FileName = file_list[feed_i - 1 - Len(article_chan) + k])

\* three files, every entry sampled: the feeder has pushed 3, 2 and 1 in this order
C19_Witness ==
    /\ pass = 1
    /\ file_list = <<3, 2, 1>>
    /\ feed_i = 4
    /\ pc_feeder = "closed"
    /\ input_is_dir

\* ------------------------------------------------------------ C20
\* C20: the sample size do keeps after sampling is the number of files it feeds; when
\* the requested size is -1 or exceeds the number of eligible entries, it is at most
\* that number and differs from the requested value, and it is that number when the
\* request covers the whole listing; it is not changed afterwards and is the article
\* count of the summary line, the number of documents processed.
C20_ReportedIsProcessed ==
    /\ [][SamplingStep =>
              /\ sample_size' = Len(file_list')
              /\ (sample_size = -1 \/ sample_size > Cardinality(EligibleNames)) =>
                     /\ sample_size' <= Cardinality(EligibleNames)
                     /\ sample_size' # sample_size
              /\ (sample_size = -1 \/ sample_size >= Len(path_list)) =>
                     sample_size' = Cardinality(EligibleNames)]_vars
    /\ [][pc \notin {"config", "sample"} => sample_size' = sample_size]_vars
    /\ [](AtSummary =>
              /\ summary[1].articles = Len(file_list)
              /\ summary[1].articles = Len(result_list)
              /\ summary[1].articles <= Cardinality(EligibleNames))

\* a summary counting the two eligible files of a directory of three entries whose
\* lowest name is not eligible: the request was -1 or at least 3
C20_Witness ==
    /\ AtSummary
    /\ Len(path_list) = 3
    /\ ~Eligible(1)
    /\ Eligible(2)
    /\ Eligible(3)
    /\ summary[1].articles = 2

\* ------------------------------------------------------------ C21
\* the main pass of a directory run has an empty sample
EmptySample == input_is_dir /\ pass = 1 /\ file_list = <<>>

\* C21: a run that processes no document (empty directory, or every sampled entry
\* filtered out) does not crash on a division by zero and ends with a summary line
\* printed.
C21_EmptySampleSummary ==
    EmptySample =>
        /\ exit_code # 2
        /\ RunEnded => (summary # <<>> /\ summary[1].articles = 0)

\* ------------------------------------------------------------ C22
\* C22: for every ms from 0 to MaxMs, format_ms(ms) is ms with unit ms below 1000,
\* ms div 1000 with unit s from 1000 below 60000, and ms div 60000 with unit m from
\* 60000 on; 1000 gives 1s and 60000 gives 1m.
C22_FormatMs ==
    elapsed_str # <<>> =>
        /\ ms < 1000 => elapsed_str[1] = [n |-> ms, unit |-> "ms"]
        /\ (1000 <= ms /\ ms < 60000) => elapsed_str[1] = [n |-> ms \div 1000, unit |-> "s"]
        /\ ms >= 60000 => elapsed_str[1] = [n |-> ms \div 60000, unit |-> "m"]
        /\ ms = 1000 => elapsed_str[1] = [n |-> 1, unit |-> "s"]
        /\ ms = 60000 => elapsed_str[1] = [n |-> 1, unit |-> "m"]

\* format_ms(60000) returned 1m
C22_Witness ==
    /\ ms = 60000
    /\ elapsed_str = <<[n |-> 1, unit |-> "m"]>>

\* ------------------------------------------------------------ C23
\* the schema root, the input path or a numeric flag is one do cannot start with
ConfigError ==
    \/ schema_root # GoodRoot
    \/ input_path # "present"
    \/ BadFlags(sample_size, num_workers, buffer_size)

\* C23: with an empty or missing schema root, a schema root without POA or VOR schema
\* file, an unreadable or uncompilable schema, an empty or missing input path, or a
\* rejected sample-size, num-workers or buffer-size, the start of do ends the process
\* with exit code 1, no document read and no pass started.
C23_ConfigErrorsExitOne ==
    [][(pc = "config" /\ ConfigError) =>
          /\ pc' = "exit"
          /\ exit_code' = 1
          /\ pass' = 0
          /\ pc_feeder' = "none"
          /\ file_list' = <<>>
          /\ long_error' = <<>>]_vars

\* the same for every configuration error but a schema root that lacks a schema file
ConfigErrorsExitOne_SchemaFound ==
    [][(pc = "config" /\ ConfigError
          /\ ~(schema_root.exists /\ "none" \in {schema_root.poa, schema_root.vor})) =>
          /\ pc' = "exit"
          /\ exit_code' = 1
          /\ pass' = 0
          /\ pc_feeder' = "none"
          /\ file_list' = <<>>
          /\ long_error' = <<>>]_vars

\* ------------------------------------------------------------ C24
\* the failing documents among those the main pass validated
FailingNames == {f \in DOMAIN dir : status_lines[f] > 0 /\ dir[f].article = "invalid"}

\* the first num_to_revalidate of them in the feed order (descending names)
FirstFailingFed ==
    {f \in FailingNames : Cardinality({g \in FailingNames : g > f}) < num_to_revalidate}

\* C24: the set of file names in the detailed report is fixed by the directory and
\* the configuration: whatever the order in which the workers of the main pass
\* completed, it is the set the run that completes the documents in feed order reports.
C24_ReportSetDeterministic ==
    report # <<>> => {report[i].FileName : i \in DOMAIN report} = FirstFailingFed

\* the returned main pass of ReturnedSpec at the size of the long directory, two
\* documents completed in the other order than fed, is a state of a run of do
ReturnedReachable ==
    ReturnedMainPass(LongFiles, LongDir(LongFiles), 2, 1,
                     Swap(Reverse(Identity(LongFiles)), LongFiles - 1))

\* ------------------------------------------------------------ C25
\* a worker adds the Result of its task to the pool's results
ResultStep == Len(result_list') = Len(result_list) + 1

\* C25: a Result built by validate_article carries an error exactly when
\* capture_error is set and the validation of its document failed; a successful
\* Result carries none, and no Result of the main pass carries one, in the results
\* of the pass as in the failures do takes from them.
C25_ErrorIffCaptured ==
    /\ [][ResultStep =>
              LET r == result_list'[Len(result_list')]
              IN (r.Error # "nil") <=>
                     (capture_error /\ validate(dir[r.FileName].article) # "nil")]_vars
    /\ [](\A i \in DOMAIN result_list :
              result_list[i].Success => result_list[i].Error = "nil")
    /\ [](pass = 1 => \A i \in DOMAIN result_list : result_list[i].Error = "nil")
    /\ [](\A i \in DOMAIN failures : failures[i].Error = "nil")

\* the revalidation pass has built a Result with its error for a document the main
\* pass failed without one, and the main pass had a successful Result too
C25_Witness ==
    /\ pass = 2
    /\ capture_error
    /\ result_list # <<>>
    /\ result_list[1].Error = "ValidationError"
    /\ failures # <<>>
    /\ failures[1].FileName = result_list[1].FileName
    /\ failures[1].Error = "nil"
    /\ summary # <<>>
    /\ summary[1].failures < summary[1].articles

FailedAt == {k \in DOMAIN result_list : ~result_list[k].Success}
SucceededAt == {k \in DOMAIN result_list : result_list[k].Success}

\* C27: once the summary is printed, failures holds the Results of the main pass
\* whose Success is false, each once and in the order they have in result_list; its
\* length is the failure count of the summary line, and the article count minus the
\* failure count is the number of successful Results.
C27_FailuresSubsequence ==
    AtSummary =>
        /\ Len(failures) = Cardinality(FailedAt)
        /\ \A k \in FailedAt : \E i \in DOMAIN failures : failures[i] = result_list[k]
        /\ \A i \in DOMAIN failures : \E k \in FailedAt : failures[i] = result_list[k]
        /\ \A i, j \in DOMAIN failures : i < j =>
               \E k, l \in FailedAt :
                   k < l /\ failures[i] = result_list[k] /\ failures[j] = result_list[l]
        /\ summary[1].failures = Len(failures)
        /\ summary[1].articles - summary[1].failures = Cardinality(SucceededAt)

\* two failures and a success between them, completed in another order than fed
C27_Witness ==
    /\ AtSummary
    /\ Len(result_list) >= 3
    /\ Cardinality(FailedAt) >= 2
    /\ SucceededAt # {}
    /\ \E k \in DOMAIN result_list : k > 1 /\ result_list[k].FileName > result_list[k - 1].FileName
    /\ failures[1].FileName < failures[2].FileName

\* ------------------------------------------------------------ C28
\* the Articles the range loop has received in this pass: those sent and no longer
\* in the channel
Dequeued == feed_i - 1 - Len(article_chan)

\* the range loop receives an Article
RecvStep == pc = "range" /\ pc' = "go"

\* the files whose Article has left the channel: held by the loop, in a worker's
\* task, or with a Result
Taken ==
    {disp_held[i].FileName : i \in DOMAIN disp_held}
        \cup {a.FileName : a \in running}
        \cup {result_list[i].FileName : i \in DOMAIN result_list}

\* C28: in both passes, for every buffer size and worker count, the feeder sends the
\* Articles in the order of file_list and the range loop receives them in that
\* order: the k-th Article received is the one of the k-th path, so that the files
\* taken from the channel are always the first paths of file_list, whatever the
\* order in which their validations complete.
C28_QueueFifo ==
    /\ [][PushStep =>
              article_chan'[Len(article_chan')] = read_article_data(file_list[feed_i])]_vars
    /\ [][RecvStep =>
              /\ disp_held' = <<read_article_data(file_list[Dequeued + 1])>>
              /\ Dequeued' = Dequeued + 1]_vars
    /\ []((InPass /\ Alive) =>
              /\ Taken \subseteq {file_list[k] : k \in 1..Dequeued}
              /\ ~panic_caught => Taken = {file_list[k] : k \in 1..Dequeued})

\* two workers, a buffer of two: the three Articles were received in the order of
\* file_list and the second validation completed before the first
C28_Witness ==
    /\ pass = 1
    /\ file_list = <<3, 2, 1>>
    /\ chan_cap = 2
    /\ max_goroutines = 2
    /\ Dequeued = 3
    /\ Len(result_list) >= 2
    /\ result_list[1].FileName = 2
    /\ result_list[2].FileName = 3

\* ------------------------------------------------------------ C29
\* how many times the Article of file f is in the channel, held by the range loop,
\* in a worker's task not yet run, or has a Result
Queued(f) == Count(FileNames(article_chan), f)
Dispatched(f) == Count(FileNames(disp_held), f) + Cardinality({a \in running : a.FileName = f})
Validated(f) == Count(FileNames(result_list), f)

\* a worker runs the task of Article a to its end
TaskStep(a) == a \in running /\ a \notin running' /\ ~panic_caught'

\* C29: within one pass every Article the feeder has pushed is received once and
\* validated once: until a task panics, it is at every moment at exactly one place
\* among the channel, the range loop, a task and the Results, and an Article not
\* yet pushed is at none; a task adds one Result for its Article and, with
\* print_status set, one status line; when the pass has returned every file of
\* file_list has one Result and, with print_status set, one status line.
C29_ExactlyOnce ==
    /\ []((InPass /\ Alive) =>
              \A j \in DOMAIN file_list :
                  LET f == file_list[j]
                      places == Queued(f) + Dispatched(f) + Validated(f)
                  IN /\ places <= (IF j < feed_i THEN 1 ELSE 0)
                     /\ (~panic_caught /\ j < feed_i) => places = 1
                     /\ (pass = 1 /\ print_status) => status_lines[f] = Validated(f))
    /\ [][\A a \in running : TaskStep(a) =>
              /\ Validated(a.FileName) = 0
              /\ Validated(a.FileName)' = 1
              /\ result_list' = Append(result_list, validate_article(a, capture_error))
              /\ status_lines'[a.FileName] =
                     status_lines[a.FileName] + (IF print_status THEN 1 ELSE 0)]_vars
    /\ [](Returned =>
              \A j \in DOMAIN file_list :
                  /\ Validated(file_list[j]) = 1
                  /\ pass = 1 => status_lines[file_list[j]] = 1)

\* the main pass over three files with two workers has returned: three Results and
\* three status lines, the Results not in the order fed
C29_Witness ==
    /\ pass = 1
    /\ pc = "summary"
    /\ print_status
    /\ file_list = <<3, 2, 1>>
    /\ max_goroutines = 2
    /\ \A f \in 1..3 : status_lines[f] = 1 /\ Validated(f) = 1
    /\ result_list[1].FileName # 3

\* ------------------------------------------------------------ C30
\* a call of read_article_data is made
ReadStep == reads' # reads /\ pc # "pass_start"

\* C30: within one call of process_files_with_feeder read_article_data is called at
\* most once for each path of file_list, and exactly once for each, and for no other
\* file, when the call has returned; each call is a step of the feeder at its
\* load position, for the path its loop is at, and no step of a worker or of the
\* range loop makes one.
C30_ReadOnceByFeeder ==
    /\ [](\A f \in DOMAIN reads : reads[f] <= 1)
    /\ [](Returned => \A f \in DOMAIN reads :
              reads[f] = IF \E j \in DOMAIN file_list : file_list[j] = f THEN 1 ELSE 0)
    /\ [][ReadStep =>
              /\ pc_feeder = "load"
              /\ pc_feeder' \in {"push", "panicked"}
              /\ reads' = [reads EXCEPT ![file_list[feed_i]] = 1]
              /\ UNCHANGED <<article_chan, disp_held, running, n_idle, result_list,
                             status_lines>>]_vars
    /\ [][(running' # running \/ result_list' # result_list \/ disp_held' # disp_held)
              => (reads' = reads \/ pc = "pass_start")]_vars

\* the main pass over a sample of two files of a directory of three has returned:
\* one read for each sampled file, none for the entry left out
C30_Witness ==
    /\ pass = 1
    /\ pc = "summary"
    /\ Len(file_list) = 2
    /\ \A j \in DOMAIN file_list : reads[file_list[j]] = 1
    /\ \E f \in DOMAIN dir : reads[f] = 0
    /\ Len(result_list) = 2

\* ------------------------------------------------------------ C31
\* a worker starts the task of an Article
StartStep == Cardinality(running') > Cardinality(running)

\* C31: whatever worker count the main pass ran with, the revalidation pass runs with
\* num_workers = 1, capture_error set and print_status unset; its pool is limited
\* to one goroutine, so that at most one validate_article is in progress at any
\* moment, and each validation starts when the ones before it are done, for the
\* next path of the revalidated file list.
C31_RevalidationSequential ==
    /\ [](Revalidating => num_workers = 1 /\ capture_error /\ ~print_status)
    /\ [](pass = 2 =>
              /\ max_goroutines = 1
              /\ LiveWorkers <= 1
              /\ Cardinality(running) <= 1)
    /\ [][(pass = 2 /\ StartStep) =>
              /\ running = {}
              /\ Len(result_list) < Len(file_list)
              /\ running' = {read_article_data(file_list[Len(result_list) + 1])}]_vars

\* the main pass ran with two workers; in the revalidation pass the first failure
\* has its Result and the validation of the second is in progress
C31_Witness ==
    /\ pass = 2
    /\ summary # <<>>
    /\ summary[1].workers = 2
    /\ num_workers = 1
    /\ Len(file_list) >= 2
    /\ Len(result_list) = 1
    /\ running = {read_article_data(file_list[2])}

\* ------------------------------------------------------------ C32
\* the status lines printed so far
StatusLineCount == Cardinality({f \in DOMAIN status_lines : status_lines[f] > 0})

\* C32: in directory mode the summary line is printed when the main pass has
\* returned, with every worker gone and one status line printed for each document
\* of the sample; no status line is printed once the summary is; the detailed
\* report is printed after the summary, when the revalidation pass has returned.
C32_OutputOrder ==
    /\ [][(summary' # summary) =>
              /\ input_is_dir /\ pass = 1
              /\ LiveWorkers = 0 /\ pc_feeder = "done"
              /\ StatusLineCount = sample_size
              /\ \A i \in DOMAIN file_list : status_lines[file_list[i]] = 1
              /\ report = <<>>]_vars
    /\ [][(status_lines' # status_lines) => (summary' = <<>> /\ report' = <<>>)]_vars
    /\ [][(report' # report) =>
              /\ summary # <<>>
              /\ pass = 2
              /\ LiveWorkers = 0
              /\ UNCHANGED <<summary, status_lines>>]_vars
    /\ [](summary # <<>> => StatusLineCount = summary[1].articles)

\* a run over three documents with two workers has printed three status lines, the
\* summary and the report of its failures
C32_Witness ==
    /\ pc = "exit"
    /\ report # <<>>
    /\ summary # <<>>
    /\ summary[1].workers = 2
    /\ summary[1].articles = 3
    /\ StatusLineCount = 3

\* ------------------------------------------------------------ C33
\* end_time is taken when the feeder is done and every worker has returned its
\* Result: the pool holds a Result for every file read
EndTimeAfterJoin ==
    end_time # <<>> =>
        /\ pc_feeder = "done"
        /\ LiveWorkers = 0
        /\ end_time[1] = Len(result_list)
        /\ end_time[1] = ReadsBegun(reads)

\* C33: the wall-time window covers the whole pass: start_time is taken when the
\* feeder has not begun to read its first file, and end_time when the feeder is done
\* and every worker has returned its Result.
C33_WallTimeWindow ==
    /\ start_time # <<>> => start_time[1] = 0
    /\ EndTimeAfterJoin

\* start_time taken when the feeder had already read files
StartTimeLate == start_time # <<>> /\ start_time[1] > 0

\* ------------------------------------------------------------ C34
\* the sum of the Elapsed of the Results, the first plus the sum of the others
RECURSIVE SumElapsed(_)
SumElapsed(results) ==
    IF results = <<>> THEN 0 ELSE Head(results).Elapsed + SumElapsed(Tail(results))

\* the summary step was taken on an empty Result list
CpuTimeOfNone == result_list = <<>> /\ cpu_time_ms = <<0>>

\* C34: the cpu time do computes, and prints through format_ms in the summary line,
\* is the sum of the Elapsed of the Results of the main pass; it is at least the
\* Elapsed of each single Result, and 0 for the empty Result list.
C34_CpuTimeIsSum ==
    (cpu_time_ms # <<>> /\ pass = 1) =>
        /\ cpu_time_ms[1] = SumElapsed(result_list)
        /\ \A i \in DOMAIN result_list : cpu_time_ms[1] >= result_list[i].Elapsed
        /\ result_list = <<>> => cpu_time_ms[1] = 0
        /\ summary # <<>> => summary[1].cpu_time = format_ms(SumElapsed(result_list))

\* three Results of 999 ms, 1 ms and 60000 ms: a cpu time of 61000 ms, printed as 1m
C34_Witness ==
    /\ cpu_time_ms = <<61000>>
    /\ Len(result_list) = 3
    /\ result_list[1].Elapsed = 999
    /\ result_list[2].Elapsed = 1
    /\ result_list[3].Elapsed = 60000
    /\ summary # <<>>
    /\ summary[1].cpu_time = [n |-> 1, unit |-> "m"]

\* ------------------------------------------------------------ C35
\* single-document mode has validated its document
SingleDone == ~input_is_dir /\ pc = "exit"

\* C35: when the input path is not a directory the document is read and validated
\* in one step of the main goroutine, with the error captured: no pass is started,
\* no feeder or worker runs, nothing is read through the feeder; a document that
\* fails validation has its error printed in that step and the exit status is 1, a
\* valid one prints none and the exit status is 0; no summary and no report is
\* printed and no file is revalidated.
C35_SingleDocument ==
    /\ [](~input_is_dir =>
              /\ pass = 0 /\ pc \in {"config", "sample", "exit", "crashed"}
              /\ pc_feeder = "none" /\ running = {} /\ n_idle = 0
              /\ file_list = <<>> /\ result_list = <<>> /\ failures = <<>>
              /\ summary = <<>> /\ report = <<>>
              /\ \A f \in DOMAIN reads : reads[f] = 0 /\ status_lines[f] = 0)
    /\ [][(~input_is_dir /\ pc = "sample" /\ pc' = "exit") =>
              LET result == validate_article(read_article_data(1), TRUE)
              IN /\ ~Malformed(1)
                 /\ exit_code' = IF result.Success THEN 0 ELSE 1
                 /\ long_error' = IF result.Success THEN <<>> ELSE <<result.Error>>
                 /\ ~result.Success => result.Error # "nil"]_vars
    /\ [](SingleDone =>
              /\ dir[1].article = "valid" => exit_code = 0 /\ long_error = <<>>
              /\ dir[1].article = "invalid" =>
                     exit_code = 1 /\ long_error = <<"ValidationError">>)

\* a single document that fails validation: its error is printed, the status is 1
C35_Witness ==
    /\ SingleDone
    /\ dir[1] = Invalid_VOR
    /\ exit_code = 1
    /\ long_error = <<"ValidationError">>
    /\ summary = <<>>

\* ------------------------------------------------------------ C36
\* the Documents read and not yet validated, wherever they are
Held ==
    {feed_held[i] : i \in DOMAIN feed_held}
        \cup {article_chan[i] : i \in DOMAIN article_chan}
        \cup {disp_held[i] : i \in DOMAIN disp_held}
        \cup running

\* file f cannot be loaded: a read error, a decode error or a missing field
Unloadable(f) ==
    dir[f].err # "nil" \/ dir[f].status = NoField \/ dir[f].article = NoField

\* C36: panic_on_err panics exactly when its error is not nil; a call of
\* read_article_data on a file that cannot be read or decoded, or that lacks a field,
\* ends the run with a panic and gives no Document, and any other call gives a
\* Document with its file name, its type tag and its data; so every Document held
\* by the feeder, the channel, the range loop or a task has a type tag and data and
\* comes from a file read and decoded without error. The same holds for the one
\* read of single-document mode.
C36_LoaderFatal ==
    /\ [](\A e \in {"nil", "ReadError", "SyntaxError"} : panic_on_err(e) <=> e # "nil")
    /\ [][ReadStep =>
              LET f == file_list[feed_i]
              IN IF Unloadable(f)
                   THEN /\ pc' = "crashed" /\ exit_code' = 2
                        /\ UNCHANGED <<feed_held, article_chan>>
                   ELSE /\ feed_held' = <<[Type |-> ToUpper(dir[f].status),
                                           FileName |-> f,
                                           Data |-> dir[f].article]>>
                        /\ UNCHANGED <<pc, exit_code>>]_vars
    /\ [](\A a \in Held :
              /\ a.FileName \in DOMAIN dir
              /\ a.Type # NoField /\ a.Type = ToUpper(dir[a.FileName].status)
              /\ a.Data # NoField /\ a.Data = dir[a.FileName].article
              /\ dir[a.FileName].err = "nil")
    /\ [][(~input_is_dir /\ pc = "sample" /\ Unloadable(1)) =>
              (pc' = "crashed" /\ exit_code' = 2 /\ long_error' = <<>>)]_vars

\* the feeder panicked on a file that cannot be decoded, after it had pushed the
\* Document of the file before
C36_Witness ==
    /\ pc = "crashed"
    /\ pc_feeder = "panicked"
    /\ feed_i = 2
    /\ dir[file_list[2]] = Undecodable
    /\ dir[file_list[1]] \in GoodKinds
    /\ feed_held = <<>>

\* ------------------------------------------------------------ C37
\* the capacity the channel of the pass is made with
EffectiveCapacity == Min(buffer_size, Len(file_list))

\* C37: in a pass with a positive worker count W and a channel of capacity
\* C = min(buffer_size, len(file_list)), the Documents read and not yet turned into
\* a Result are at most C in the channel, one held by the feeder, one held by the
\* range loop and W in tasks: at most C + W + 2 together.
C37_InFlightBound ==
    (InPass /\ num_workers >= 1) =>
        /\ chan_cap = EffectiveCapacity
        /\ Len(article_chan) <= EffectiveCapacity
        /\ Len(feed_held) <= 1
        /\ Len(disp_held) <= 1
        /\ Cardinality(running) <= num_workers
        /\ Cardinality(Held) <= EffectiveCapacity + num_workers + 2

\* every place is full at once: two Documents in the channel, one with the feeder
\* blocked on its send, one with the range loop blocked on the pool, one in the task
\* of the only worker
C37_Witness ==
    /\ InPass
    /\ num_workers = 1
    /\ EffectiveCapacity = 2
    /\ Len(article_chan) = 2
    /\ Len(feed_held) = 1
    /\ Len(disp_held) = 1
    /\ Cardinality(running) = 1
    /\ Cardinality(Held) = 5

TypeOK ==
    /\ pc \in {"config", "sample", "pass_start", "start", "range", "go", "wg_wait", "pool_wait",
               "pool_join", "summary", "revalidate", "report", "exit", "crashed"}
    /\ pc_feeder \in {"none", "load", "push", "closed", "done", "panicked"}
    /\ exit_code \in {-1, 0, 1, 2}
    /\ Len(feed_held) <= 1
    /\ Len(disp_held) <= 1
    /\ n_idle >= 0

====
